---------------------------- MODULE Spec2Model ----------------------------
(***************************************************************************)
(* The Thread component of the chat web application                        *)
(* (src/webapp/src/components/graph/GraphVisualization.tsx, lines 337-894) *)
(* as a state machine: the component's React state and refs, the stream    *)
(* object it reads (messages, isLoading, error, interrupt), the handlers   *)
(* handleSubmit, handleSuggestedPrompt, handleRegenerate and setThreadId,  *)
(* and the two effects that follow stream.error and stream.messages; and   *)
(* the load of the graph data by the GraphVisualization component of the   *)
(* same file (lines 35-135).                                               *)
(***************************************************************************)
EXTENDS Integers, Sequences, FiniteSets, TLC

VARIABLES
    messages,           \* stream.messages: the canonical transcript
    isLoading,          \* stream.isLoading
    streamError,        \* stream.error: <<>> when unset, <<text>> otherwise
    interrupt,          \* stream.interrupt is set
    lastError,          \* lastError.current: <<>> when undefined, <<text>>
    toasts,             \* message texts of the toast.error calls made
    firstTokenReceived, \* useState(false)
    prevMessageLength,  \* prevMessageLength.current
    input,              \* the textarea's text, a sequence of characters
    contentBlocks,      \* pending attachment blocks of useFileUpload
    artifactContext,    \* the artifact context, a set of <<key, value>>
    artifactOpen,       \* the artifact side panel is open
    threadId,           \* the threadId query state, Null for a new thread
    nextUuid,           \* number of the next uuidv4() result
    submitCount,        \* number of stream.submit calls made so far
    regenerating,       \* the latest run was submitted with a checkpoint
    cancelled,          \* the latest run was cancelled by stream.stop()
    ev,                 \* the operation that produced the current state, with
                        \* its argument and the stream.submit call it made
    contextBeforeSwitch,\* history: <<c>> when the latest setThreadId found
                        \* the artifact context c and no context was set
                        \* since, <<>> otherwise
    regensSinceChange,  \* history: handleRegenerate calls made since the
                        \* effect on [messages] last ran
    nodes,              \* GraphVisualization: useState<Node[]>([])
    relationships,      \* GraphVisualization: useState<Relationship[]>([])
    loading,            \* GraphVisualization: useState(true)
    error,              \* GraphVisualization: <<>> for null, <<text>>
    selectedNode,       \* GraphVisualization: <<>> for null, <<node>>
    records             \* loadGraphData: <<>> until response.json() has
                        \* resolved, then <<the list of records>>

vars == <<messages, isLoading, streamError, interrupt, lastError, toasts,
          firstTokenReceived, prevMessageLength, input,
          contentBlocks, artifactContext, artifactOpen, threadId, nextUuid,
          submitCount, regenerating, cancelled, ev, contextBeforeSwitch,
          regensSinceChange, nodes, relationships, loading, error,
          selectedNode, records>>

(***************************************************************************)
(* Bounds of the model.                                                    *)
(***************************************************************************)
MaxMsgs == 3        \* longest transcript a delta may produce
MaxSubmits == 2     \* stream.submit calls
MaxToasts == 2      \* toast.error calls
MaxBlocks == 2      \* pending attachment blocks
MaxRecords == 2     \* records of a graph data list drawn record by record
ChainLength == 101  \* records of the longest chain of graph data

(***************************************************************************)
(* Values.                                                                 *)
(***************************************************************************)
Null == "null"
ThreadIds == {Null, "thread-1"}
DO_NOT_RENDER_ID_PREFIX == "do-not-render-"
UuidPrefix == "uuid-"
ServerPrefix == "run-"
AiIds == {<<ServerPrefix, 1>>, <<ServerPrefix, 2>>}
ToolIds == {<<ServerPrefix, 3>>}
CallIds == {"call-1", "call-2"}
ToolCallLists == {<<>>, <<"call-1">>}
AiTexts == {<<"H", "i">>, <<"H", "i", "!">>}
FirstText == {<<"H", "i">>}
ToolResultText == <<"r">>
SynthText == <<"o", "k">>
Inputs == {<<>>, <<" ">>, <<" ", "a">>}
BlockKinds == {"image", "file"}
Contexts == {{}, {<<"k", "v">>}}
Checkpoints == {"null", "cp-1"}
ErrorTexts == {"", "e1", "e2"}
SuggestedPrompts == {<<"p">>}

TextBlock(t) == [type |-> "text", text |-> t]
AttachmentBlock(k) == [type |-> k, text |-> <<>>]

HumanMessage(id, content) ==
    [id |-> id, type |-> "human", content |-> content,
     tool_calls |-> <<>>, tool_call_id |-> ""]
AiMessage(id, text, calls) ==
    [id |-> id, type |-> "ai", content |-> <<TextBlock(text)>>,
     tool_calls |-> calls, tool_call_id |-> ""]
ToolMessage(id, text, call) ==
    [id |-> id, type |-> "tool", content |-> <<TextBlock(text)>>,
     tool_calls |-> <<>>, tool_call_id |-> call]

\* The messages the backend may deliver in a delta.
AiMessages(texts) ==
    {AiMessage(i, t, c) : i \in AiIds, t \in texts, c \in ToolCallLists}
ToolMessages ==
    {ToolMessage(i, ToolResultText, c) : i \in ToolIds, c \in CallIds}

(***************************************************************************)
(* Pure helpers.                                                           *)
(***************************************************************************)
RECURSIVE TrimStart(_)
TrimStart(s) ==
    IF Len(s) > 0 /\ s[1] = " " THEN TrimStart(Tail(s)) ELSE s

RECURSIVE TrimEnd(_)
TrimEnd(s) ==
    IF Len(s) > 0 /\ s[Len(s)] = " "
    THEN TrimEnd(SubSeq(s, 1, Len(s) - 1)) ELSE s

\* String.prototype.trim
Trim(s) == TrimEnd(TrimStart(s))

\* id?.startsWith(prefix): false for a message without an id
StartsWith(id, prefix) == Len(id) > 0 /\ id[1] = prefix

(***************************************************************************)
(* Tool-call pairing (lib/ensure-tool-responses).                          *)
(***************************************************************************)
\* Index of the last message of the run of tool messages that immediately
\* follows msgs[i]; i itself when the next message is no tool message.
RECURSIVE ToolRunEnd(_, _)
ToolRunEnd(msgs, i) ==
    IF i < Len(msgs) /\ msgs[i + 1].type = "tool"
    THEN ToolRunEnd(msgs, i + 1) ELSE i

\* Tool invocation c of msgs[i] has a matching response right after msgs[i].
HasResponse(msgs, i, c) ==
    \E j \in (i + 1)..ToolRunEnd(msgs, i) : msgs[j].tool_call_id = c

\* The invocations of msgs[i] that have no matching response.
MissingCalls(msgs, i) ==
    IF msgs[i].type = "ai"
    THEN SelectSeq(msgs[i].tool_calls, LAMBDA c : ~HasResponse(msgs, i, c))
    ELSE <<>>

\* One synthesized, internal-only tool response per call of calls, with the
\* uuids u, u + 1, ...
RECURSIVE SynthesizeResponses(_, _)
SynthesizeResponses(calls, u) ==
    IF calls = <<>> THEN <<>>
    ELSE <<ToolMessage(<<DO_NOT_RENDER_ID_PREFIX, u>>, SynthText, Head(calls))>>
         \o SynthesizeResponses(Tail(calls), u + 1)

RECURSIVE EnsureFrom(_, _, _)
EnsureFrom(msgs, i, u) ==
    IF i > Len(msgs) THEN <<>>
    ELSE LET new == SynthesizeResponses(MissingCalls(msgs, i), u)
         IN  new \o EnsureFrom(msgs, i + 1, u + Len(new))

\* ensureToolCallsHaveResponses(messages): the tool responses to add, the
\* first of them taking uuid number u.
ensureToolCallsHaveResponses(msgs, u) == EnsureFrom(msgs, 1, u)

(***************************************************************************)
(* The stream object (providers/Stream): submit, stop, deltas.             *)
(***************************************************************************)
\* Position of the entry of msgs with id id, 0 when there is none.
IndexOfId(msgs, id) ==
    IF id # <<>> /\ \E i \in 1..Len(msgs) : msgs[i].id = id
    THEN CHOOSE i \in 1..Len(msgs) :
             msgs[i].id = id /\ \A j \in 1..(i - 1) : msgs[j].id # id
    ELSE 0

\* Mutant of MergeById: the delivered message is always appended.
MergeAppendOnly(msgs, m) == Append(msgs, m)

\* Reconciliation of one delivered message: it supersedes the entry with
\* its id in place, and is appended when no entry has its id.
MergeById(msgs, m) ==
    LET i == IndexOfId(msgs, m.id)
    IN  IF i = 0 THEN Append(msgs, m) ELSE [msgs EXCEPT ![i] = m]

\* The transcript cut back by k trailing entries (regeneration).
Truncate(msgs, k) == SubSeq(msgs, 1, Len(msgs) - k)

(***************************************************************************)
(* The effects of Thread.                                                  *)
(***************************************************************************)
\* Mutant of ErrorEffect: every error with a message is notified, equal to
\* the stored text or not.
ErrorEffectNoDedup(err, last) ==
    IF err = <<>>
    THEN [lastError |-> <<>>, toast |-> FALSE]
    ELSE IF err[1] = ""
         THEN [lastError |-> last, toast |-> FALSE]
         ELSE [lastError |-> err, toast |-> TRUE]

\* Mutant of ErrorEffect: the stored text is kept when the error clears.
ErrorEffectNoReset(err, last) ==
    IF err = <<>>
    THEN [lastError |-> last, toast |-> FALSE]
    ELSE IF err[1] = "" \/ last = err
         THEN [lastError |-> last, toast |-> FALSE]
         ELSE [lastError |-> err, toast |-> TRUE]

\* Effect on [stream.error]: the next lastError.current and whether
\* toast.error is called.
ErrorEffect(err, last) ==
    IF err = <<>>
    THEN [lastError |-> <<>>, toast |-> FALSE]
    ELSE LET message == err[1]
         IN  IF message = "" \/ last = <<message>>
             THEN [lastError |-> last, toast |-> FALSE]
             ELSE [lastError |-> <<message>>, toast |-> TRUE]

\* Effect on [messages]: whether setFirstTokenReceived(true) is called.
FirstTokenSeen(msgs, prevLen) ==
    /\ Len(msgs) # prevLen
    /\ Len(msgs) # 0
    /\ msgs[Len(msgs)].type = "ai"

(***************************************************************************)
(* Initial state: the component just mounted on a new thread.              *)
(***************************************************************************)
\* An operation that made no stream.submit call, and one that made the call
\* submit(payload, options).
Event(op, accepted) ==
    [op |-> op, accepted |-> accepted, arg |-> <<>>, submit |-> <<>>,
     run |-> 0]
SubmitEvent(op, payload, options) ==
    [op |-> op, accepted |-> TRUE, arg |-> <<>>,
     submit |-> <<[payload |-> payload, options |-> options]>>, run |-> 0]
\* The arrival of a delta of run number run, folded or discarded.
DeltaEvent(run, folded) ==
    [op |-> "delta", accepted |-> folded, arg |-> <<>>, submit |-> <<>>,
     run |-> run]
\* The event e, of an operation called with argument a.
WithArg(e, a) == [e EXCEPT !.arg = <<a>>]

Init ==
    /\ messages = <<>>
    /\ isLoading = FALSE
    /\ streamError = <<>>
    /\ interrupt = FALSE
    /\ lastError = <<>>
    /\ toasts = <<>>
    /\ firstTokenReceived = FALSE
    /\ prevMessageLength = 0
    /\ input = <<>>
    /\ contentBlocks = <<>>
    /\ artifactContext = {}
    /\ artifactOpen = FALSE
    /\ threadId = Null
    /\ nextUuid = 1
    /\ submitCount = 0
    /\ regenerating = FALSE
    /\ cancelled = FALSE
    /\ ev = Event("mount", TRUE)
    /\ contextBeforeSwitch = <<>>
    /\ regensSinceChange = 0
    /\ nodes = <<>>
    /\ relationships = <<>>
    /\ loading = TRUE
    /\ error = <<>>
    /\ selectedNode = <<>>
    /\ records = <<>>

uiVars == <<input, contentBlocks, artifactContext, artifactOpen, threadId,
            contextBeforeSwitch>>
errorVars == <<streamError, lastError, toasts>>
tokenVars == <<firstTokenReceived, prevMessageLength, regensSinceChange>>
submitVars == <<nextUuid, submitCount, regenerating, cancelled>>
graphVars == <<nodes, relationships, loading, error, selectedNode, records>>
\* The state of Thread, ev apart.
threadVars == <<messages, isLoading, interrupt, errorVars, tokenVars, uiVars,
                submitVars>>

(***************************************************************************)
(* stream.submit(payload, options): starts a run; the transcript becomes   *)
(* optimistic, the result of options.optimisticValues when it is given.    *)
(* op is the handler that makes the call and arg the argument it was       *)
(* called with, <<>> when it takes none.                                   *)
(***************************************************************************)
StreamSubmit(op, arg, payload, options, optimistic) ==
    /\ submitCount < MaxSubmits
    /\ submitCount' = submitCount + 1
    /\ regenerating' = (options.checkpoint # <<>>)
    /\ cancelled' = FALSE
    /\ ev' = [SubmitEvent(op, payload, options) EXCEPT !.arg = arg]
    /\ isLoading' = TRUE
    /\ interrupt' = FALSE
    /\ messages' = optimistic

\* Mutant of MessagesEffect: the length is recorded only when the first
\* token is seen.
MessagesEffectInsideIf(msgs, ftr) ==
    /\ firstTokenReceived' =
           IF FirstTokenSeen(msgs, prevMessageLength) THEN TRUE ELSE ftr
    /\ prevMessageLength' =
           IF FirstTokenSeen(msgs, prevMessageLength)
           THEN Len(msgs) ELSE prevMessageLength
    /\ regensSinceChange' = 0

\* The run of the effect on [messages] after a render with transcript msgs,
\* firstTokenReceived being ftr before it.
MessagesEffect(msgs, ftr) ==
    /\ firstTokenReceived' =
           IF FirstTokenSeen(msgs, prevMessageLength) THEN TRUE ELSE ftr
    /\ prevMessageLength' = Len(msgs)
    /\ regensSinceChange' = 0

SubmitOptions(checkpoint, optimisticValues) ==
    [checkpoint |-> checkpoint, optimisticValues |-> optimisticValues,
     streamMode |-> <<"values">>, streamSubgraphs |-> TRUE,
     streamResumable |-> TRUE]

(***************************************************************************)
(* handleSubmit (lines 421-462).                                           *)
(***************************************************************************)
\* Mutant of SubmitRejected: the input is tested without trim().
SubmitRejectedNoTrim ==
    (Len(input) = 0 /\ Len(contentBlocks) = 0) \/ isLoading

\* The early return of handleSubmit.
SubmitRejected ==
    (Len(Trim(input)) = 0 /\ Len(contentBlocks) = 0) \/ isLoading

\* Mutant of ResetFirstToken: the flag is left as it was.
KeepFirstToken(ftr) == ftr

\* setFirstTokenReceived(false) at the start of a submission.
ResetFirstToken(ftr) == FALSE

\* Mutant of HumanContent: the pending blocks come before the text block.
HumanContentBlocksFirst ==
    contentBlocks
        \o (IF Len(Trim(input)) > 0 THEN <<TextBlock(input)>> ELSE <<>>)

\* The content of the new human message.
HumanContent ==
    (IF Len(Trim(input)) > 0 THEN <<TextBlock(input)>> ELSE <<>>)
        \o contentBlocks

\* The context of the payload: <<>> stands for undefined.
PayloadContext ==
    IF Cardinality(artifactContext) > 0 THEN <<artifactContext>> ELSE <<>>

\* Mutant of OptimisticMessages: the new human message is put before the
\* synthesized tool responses.
OptimisticMessagesHumanFirst(prev, toolMessages, newHumanMessage) ==
    prev \o <<newHumanMessage>> \o toolMessages

\* The transcript optimisticValues yields from prev.
OptimisticMessages(prev, toolMessages, newHumanMessage) ==
    prev \o toolMessages \o <<newHumanMessage>>

handleSubmit ==
    IF SubmitRejected
    THEN /\ ev' = Event("handleSubmit", FALSE)
         /\ UNCHANGED <<messages, isLoading, interrupt, errorVars, tokenVars,
                        uiVars, submitVars, graphVars>>
    ELSE LET newHumanMessage ==
                 HumanMessage(<<UuidPrefix, nextUuid>>, HumanContent)
             toolMessages ==
                 ensureToolCallsHaveResponses(messages, nextUuid + 1)
             context == PayloadContext
             next == OptimisticMessages(messages, toolMessages,
                                        newHumanMessage)
         IN  /\ StreamSubmit("handleSubmit", <<>>,
                    <<[messages |-> toolMessages \o <<newHumanMessage>>,
                       context |-> context]>>,
                    SubmitOptions(<<>>, TRUE), next)
             /\ nextUuid' = nextUuid + 1 + Len(toolMessages)
             /\ MessagesEffect(next, ResetFirstToken(firstTokenReceived))
             /\ input' = <<>>
             /\ contentBlocks' = <<>>
             /\ UNCHANGED <<errorVars, artifactContext, artifactOpen,
                            threadId, contextBeforeSwitch, graphVars>>

(***************************************************************************)
(* handleSuggestedPrompt (lines 464-487); its buttons are rendered only    *)
(* while the chat has not started (lines 504, 680, 711-730).               *)
(***************************************************************************)
chatStarted == threadId # Null \/ Len(messages) # 0

SuggestedPromptRejected == isLoading

handleSuggestedPrompt(prompt) ==
    /\ ~chatStarted
    /\ IF SuggestedPromptRejected
       THEN /\ ev' = Event("handleSuggestedPrompt", FALSE)
            /\ UNCHANGED <<messages, isLoading, interrupt, errorVars,
                           tokenVars, uiVars, submitVars, graphVars>>
       ELSE LET newHumanMessage ==
                    HumanMessage(<<UuidPrefix, nextUuid>>,
                                 <<TextBlock(prompt)>>)
                next == messages \o <<newHumanMessage>>
            IN  /\ StreamSubmit("handleSuggestedPrompt", <<prompt>>,
                       <<[messages |-> <<newHumanMessage>>,
                          context |-> <<>>]>>,
                       SubmitOptions(<<>>, TRUE), next)
                /\ nextUuid' = nextUuid + 1
                /\ MessagesEffect(next, ResetFirstToken(firstTokenReceived))
                /\ UNCHANGED <<errorVars, uiVars, graphVars>>

(***************************************************************************)
(* handleRegenerate (lines 489-502), handed to every rendered              *)
(* AssistantMessage (lines 645-672).                                       *)
(***************************************************************************)
\* Mutant of RenderedMessages: a message without an id is not rendered
\* either.
RenderedMessagesWithIds ==
    SelectSeq(messages,
              LAMBDA m : m.id # <<>>
                         /\ ~StartsWith(m.id, DO_NOT_RENDER_ID_PREFIX))

\* The messages rendered: those whose id lacks the internal prefix.
RenderedMessages ==
    SelectSeq(messages,
              LAMBDA m : ~StartsWith(m.id, DO_NOT_RENDER_ID_PREFIX))

hasNoAIOrToolMessages ==
    ~\E i \in 1..Len(messages) : messages[i].type \in {"ai", "tool"}

\* Some AssistantMessage is rendered.
AssistantMessageRendered ==
    \/ \E i \in 1..Len(RenderedMessages) : RenderedMessages[i].type # "human"
    \/ hasNoAIOrToolMessages /\ interrupt

\* Mutant of RegenerateLength: the counter is left as it was.
RegenerateLengthUnchanged(prevLen) == prevLen

\* prevMessageLength.current = prevMessageLength.current - 1
RegenerateLength(prevLen) == prevLen - 1

\* Mutant of RegenerateOptions: the checkpoint is left out of the options.
RegenerateOptionsNoCheckpoint(parentCheckpoint) == SubmitOptions(<<>>, FALSE)

\* The options of the stream.submit call of handleRegenerate.
RegenerateOptions(parentCheckpoint) ==
    SubmitOptions(<<parentCheckpoint>>, FALSE)

handleRegenerate(parentCheckpoint) ==
    /\ AssistantMessageRendered
    /\ StreamSubmit("handleRegenerate", <<parentCheckpoint>>, <<>>,
                    RegenerateOptions(parentCheckpoint), messages)
    /\ prevMessageLength' = RegenerateLength(prevMessageLength)
    /\ firstTokenReceived' = ResetFirstToken(firstTokenReceived)
    /\ regensSinceChange' = regensSinceChange + 1
    /\ UNCHANGED <<errorVars, uiVars, nextUuid, graphVars>>

(***************************************************************************)
(* The Cancel button (lines 848-856): stream.stop().                       *)
(***************************************************************************)
\* stream.stop(): the run in flight is cancelled, the transcript folded so
\* far is kept.
StreamStop ==
    /\ isLoading' = FALSE
    /\ cancelled' = TRUE
    /\ UNCHANGED <<messages, interrupt, streamError>>

\* Mutant of CancelClick: the button does not call stream.stop().
CancelClickWithoutStop ==
    /\ isLoading
    /\ ev' = Event("stop", TRUE)
    /\ UNCHANGED <<messages, isLoading, interrupt, errorVars, tokenVars,
                   uiVars, submitVars, graphVars>>

CancelClick ==
    /\ isLoading
    /\ StreamStop
    /\ ev' = Event("stop", TRUE)
    /\ UNCHANGED <<lastError, toasts, tokenVars, uiVars, nextUuid,
                   submitCount, regenerating, graphVars>>

(***************************************************************************)
(* Events of the transport.                                                *)
(***************************************************************************)
\* The latest run was started by handleRegenerate.
RunIsRegeneration == regenerating

\* A delta of run number run belongs to the run in flight.
DeltaIsCurrent(run) == isLoading /\ run = submitCount

\* A delta of run number run arrives: message m, after a cut of k trailing
\* entries when the run is a regeneration.  A delta of a run that is no
\* longer in flight is discarded.
DeltaArrive(run, k, m) ==
    IF DeltaIsCurrent(run)
    THEN LET next == MergeById(Truncate(messages, k), m)
         IN  /\ k = 0 \/ RunIsRegeneration
             /\ Len(next) <= MaxMsgs
             /\ messages' = next
             /\ MessagesEffect(next, firstTokenReceived)
             /\ ev' = WithArg(DeltaEvent(run, TRUE), m)
             /\ UNCHANGED <<isLoading, interrupt, errorVars, uiVars,
                            submitVars, graphVars>>
    ELSE /\ k = 0
         /\ ev' = DeltaEvent(run, FALSE)
         /\ UNCHANGED <<messages, isLoading, interrupt, errorVars, tokenVars,
                        uiVars, submitVars, graphVars>>

\* The run in flight ends, parked on an interrupt or completed.
StreamFinish(interrupted) ==
    /\ isLoading
    /\ isLoading' = FALSE
    /\ interrupt' = interrupted
    /\ ev' = Event("finish", TRUE)
    /\ UNCHANGED <<messages, errorVars, tokenVars, uiVars, submitVars, graphVars>>

\* stream.error becomes an error with message text; the effect on
\* [stream.error] runs.
TransportError(text) ==
    LET e == ErrorEffect(<<text>>, lastError)
    IN  /\ e.toast => Len(toasts) < MaxToasts
        /\ streamError' = <<text>>
        /\ isLoading' = FALSE
        /\ lastError' = e.lastError
        /\ toasts' = IF e.toast THEN Append(toasts, text) ELSE toasts
        /\ ev' = Event("error", e.toast)
        /\ UNCHANGED <<messages, interrupt, tokenVars, uiVars, submitVars, graphVars>>

\* stream.error becomes unset; the effect on [stream.error] runs.
ErrorClear ==
    LET e == ErrorEffect(<<>>, lastError)
    IN  /\ streamError # <<>>
        /\ streamError' = <<>>
        /\ lastError' = e.lastError
        /\ ev' = Event("errorClear", TRUE)
        /\ UNCHANGED <<messages, isLoading, interrupt, toasts, tokenVars,
                       uiVars, submitVars, graphVars>>

(***************************************************************************)
(* Other user actions.                                                     *)
(***************************************************************************)
\* Mutant of ResetArtifactContext: the context is left as it was.
KeepArtifactContext == artifactContext

\* setArtifactContext({}) (line 376)
ResetArtifactContext == {}

\* setThreadId (lines 371-377); the "New thread" buttons call it with null
\* (lines 603, 625).
setThreadId(id) ==
    /\ threadId' = id
    /\ artifactOpen' = FALSE
    /\ artifactContext' = ResetArtifactContext
    /\ contextBeforeSwitch' = <<artifactContext>>
    /\ ev' = WithArg(Event("setThreadId", TRUE), id)
    /\ UNCHANGED <<messages, isLoading, interrupt, errorVars, tokenVars,
                   input, contentBlocks, submitVars, graphVars>>

\* The textarea's onChange (line 813)
setInput(text) ==
    /\ input' = text
    /\ ev' = Event("edit", TRUE)
    /\ UNCHANGED <<messages, isLoading, interrupt, errorVars, tokenVars,
                   contentBlocks, artifactContext, artifactOpen, threadId,
                   contextBeforeSwitch, submitVars, graphVars>>

\* An attachment is added to the pending blocks (useFileUpload).
addBlock(kind) ==
    /\ Len(contentBlocks) < MaxBlocks
    /\ contentBlocks' = Append(contentBlocks, AttachmentBlock(kind))
    /\ ev' = Event("edit", TRUE)
    /\ UNCHANGED <<messages, isLoading, interrupt, errorVars, tokenVars,
                   input, artifactContext, artifactOpen, threadId,
                   contextBeforeSwitch, submitVars, graphVars>>

\* An artifact is opened with its context by the artifact provider.
setArtifactContext(ctx) ==
    /\ artifactContext' = ctx
    /\ artifactOpen' = TRUE
    /\ contextBeforeSwitch' = <<>>
    /\ ev' = WithArg(Event("setArtifactContext", TRUE), ctx)
    /\ UNCHANGED <<messages, isLoading, interrupt, errorVars, tokenVars,
                   input, contentBlocks, threadId, submitVars, graphVars>>

\* The close button of the artifact panel (lines 881-886)
closeArtifact ==
    /\ artifactOpen
    /\ artifactOpen' = FALSE
    /\ ev' = Event("closeArtifact", TRUE)
    /\ UNCHANGED <<messages, isLoading, interrupt, errorVars, tokenVars,
                   input, contentBlocks, artifactContext, threadId,
                   contextBeforeSwitch, submitVars, graphVars>>

(***************************************************************************)
(* Specifications of Thread.  Each runs every handler of Thread; they      *)
(* differ in the inputs the environment draws.  SpecGraph, further down,   *)
(* runs the load of GraphVisualization.                                    *)
(*   Spec        the backend delivers ai and tool messages, with and       *)
(*               without tool calls, cuts the transcript back on a         *)
(*               regeneration, and ends runs with and without interrupt;   *)
(*               the user types plain text.                                *)
(*   SpecBuffer  the user types any input and attaches blocks; the backend *)
(*               answers with plain ai messages.                           *)
(*   SpecErrors  the transport raises and clears errors.                   *)
(*   SpecContext the artifact provider sets the artifact context and the   *)
(*               user closes the panel and switches threads.               *)
(*   SpecProjection  the backend delivers ai messages with an unanswered   *)
(*               tool call and messages without an id.                     *)
(*   SpecMerge   the backend delivers messages under ids the transcript    *)
(*               already holds, with the same and with a longer text.      *)
(***************************************************************************)
PlainInputs == {<<>>, <<"a">>}

\* The kind of the n-th attachment the user adds to the pending blocks: an
\* image first, then a file, in turns.
UploadKind(n) == IF n % 2 = 1 THEN "image" ELSE "file"
PlainAnswers == {AiMessage(<<ServerPrefix, 1>>, t, <<>>) : t \in FirstText}

Next ==
    \/ handleSubmit
    \/ \E prompt \in SuggestedPrompts : handleSuggestedPrompt(prompt)
    \/ \E cp \in Checkpoints : handleRegenerate(cp)
    \/ CancelClick
    \/ \E text \in PlainInputs : setInput(text)
    \/ \E run \in 1..submitCount, k \in 0..Len(messages),
          m \in AiMessages(FirstText) \cup ToolMessages :
          DeltaArrive(run, k, m)
    \/ \E interrupted \in BOOLEAN : StreamFinish(interrupted)

Spec == Init /\ [][Next]_vars

NextBuffer ==
    \/ handleSubmit
    \/ \E prompt \in SuggestedPrompts : handleSuggestedPrompt(prompt)
    \/ \E cp \in Checkpoints : handleRegenerate(cp)
    \/ CancelClick
    \/ \E text \in Inputs : setInput(text)
    \/ \E kind \in BlockKinds :
          kind = UploadKind(Len(contentBlocks) + 1) /\ addBlock(kind)
    \/ \E run \in 1..submitCount, m \in PlainAnswers : DeltaArrive(run, 0, m)
    \/ StreamFinish(FALSE)

SpecBuffer == Init /\ [][NextBuffer]_vars

NextErrors ==
    \/ handleSubmit
    \/ \E prompt \in SuggestedPrompts : handleSuggestedPrompt(prompt)
    \/ \E cp \in Checkpoints : handleRegenerate(cp)
    \/ CancelClick
    \/ \E text \in PlainInputs : setInput(text)
    \/ \E run \in 1..submitCount, m \in PlainAnswers : DeltaArrive(run, 0, m)
    \/ StreamFinish(FALSE)
    \/ \E text \in ErrorTexts : TransportError(text)
    \/ ErrorClear

SpecErrors == Init /\ [][NextErrors]_vars

NextContext ==
    \/ handleSubmit
    \/ \E prompt \in SuggestedPrompts : handleSuggestedPrompt(prompt)
    \/ \E cp \in Checkpoints : handleRegenerate(cp)
    \/ CancelClick
    \/ \E text \in PlainInputs : setInput(text)
    \/ \E run \in 1..submitCount, m \in PlainAnswers : DeltaArrive(run, 0, m)
    \/ StreamFinish(FALSE)
    \/ \E id \in ThreadIds : setThreadId(id)
    \/ \E ctx \in Contexts : setArtifactContext(ctx)
    \/ closeArtifact

SpecContext == Init /\ [][NextContext]_vars

\* An ai message that issues a tool invocation, and one without an id.
ProjectionAnswers ==
    {AiMessage(<<ServerPrefix, 1>>, t, <<"call-1">>) : t \in FirstText}
        \cup {AiMessage(<<>>, t, <<>>) : t \in FirstText}

NextProjection ==
    \/ handleSubmit
    \/ \E prompt \in SuggestedPrompts : handleSuggestedPrompt(prompt)
    \/ \E cp \in Checkpoints : handleRegenerate(cp)
    \/ CancelClick
    \/ \E text \in PlainInputs : setInput(text)
    \/ \E run \in 1..submitCount, m \in ProjectionAnswers :
          DeltaArrive(run, 0, m)
    \/ StreamFinish(FALSE)

SpecProjection == Init /\ [][NextProjection]_vars

\* Ai messages without tool calls, each id with a shorter and a longer text.
MergeAnswers == {AiMessage(i, t, <<>>) : i \in AiIds, t \in AiTexts}

\* The human messages of msgs, as the backend confirms them under their id.
ConfirmedHumans(msgs) ==
    {msgs[i] : i \in {h \in 1..Len(msgs) : msgs[h].type = "human"}}

NextMerge ==
    \/ handleSubmit
    \/ \E prompt \in SuggestedPrompts : handleSuggestedPrompt(prompt)
    \/ \E cp \in Checkpoints : handleRegenerate(cp)
    \/ CancelClick
    \/ \E text \in PlainInputs : setInput(text)
    \/ \E run \in 1..submitCount,
          m \in MergeAnswers \cup ConfirmedHumans(messages) :
          DeltaArrive(run, 0, m)
    \/ StreamFinish(FALSE)

SpecMerge == Init /\ [][NextMerge]_vars

(***************************************************************************)
(* GraphVisualization: loadGraphData (lines 43-135).                       *)
(***************************************************************************)
\* slice(0, 100) (line 111)
NodeLimit == 100

Digits == <<"0", "1", "2", "3", "4", "5", "6", "7", "8", "9">>

\* The decimal numeral of the natural number n, a sequence of characters.
RECURSIVE Numeral(_)
Numeral(n) ==
    IF n < 10 THEN <<Digits[n + 1]>>
    ELSE Numeral(n \div 10) \o <<Digits[(n % 10) + 1]>>

\* An identity of the graph data is a number, <<"int", n>>, or a string,
\* <<"str", characters>>.  String(identity) is the numeral of the one and
\* the characters of the other.
String(identity) ==
    IF identity[1] = "int" THEN Numeral(identity[2]) ELSE identity[2]

\* A record of the graph data: seed and m are <<>> for null or <<node>>,
\* r is the list of relationships, <<>> also when the field is missing.
RecordNode(identity) == [identity |-> identity]
RecordRelationship(identity, start, end) ==
    [identity |-> identity, start |-> start, end |-> end]
Record(seed, r, m) == [seed |-> seed, r |-> r, m |-> m]

\* nodeMap with the node of n added when it is given and its id is new;
\* nodeMap is kept as the list of its values in insertion order.
AddNode(nodeMap, n, size) ==
    IF n # <<>>
       /\ ~\E i \in 1..Len(nodeMap) : nodeMap[i].id = String(n[1].identity)
    THEN Append(nodeMap, [id |-> String(n[1].identity), size |-> size])
    ELSE nodeMap

\* rels with the relationships of the list r added whose id is new.
RECURSIVE AddRels(_, _)
AddRels(rels, r) ==
    IF r = <<>> THEN rels
    ELSE LET rel == Head(r)
             relId == String(rel.identity)
         IN  AddRels(IF \E i \in 1..Len(rels) : rels[i].id = relId
                     THEN rels
                     ELSE Append(rels, [id |-> relId,
                                        from |-> String(rel.start),
                                        to |-> String(rel.end)]),
                     Tail(r))

\* One turn of records.forEach (lines 57-108): the node map and the
\* relationships acc after the record.
TransformRecord(acc, record) ==
    LET withSeed == AddNode(acc.nodeMap, record.seed, 25)
        withM == AddNode(withSeed, record.m, 20)
    IN  [nodeMap |-> withM, rels |-> AddRels(acc.rels, record.r)]

\* The turns for the records rs[lo], ..., rs[hi], in that order, starting
\* from acc.  The range is halved, and the result of the first half is
\* evaluated before the second half starts, so that the evaluation does not
\* nest as deep as the list is long.
RECURSIVE TransformRange(_, _, _, _)
TransformRange(rs, lo, hi, acc) ==
    IF lo > hi THEN acc
    ELSE IF lo = hi THEN TransformRecord(acc, rs[lo])
    ELSE LET mid == (lo + hi) \div 2
             first == TransformRange(rs, lo, mid, acc)
         IN  IF Len(first.nodeMap) + Len(first.rels) >= 0
             THEN TransformRange(rs, mid + 1, hi, first)
             ELSE first

\* records.forEach over the whole list.
Transform(rs) ==
    TransformRange(rs, 1, Len(rs), [nodeMap |-> <<>>, rels |-> <<>>])

\* Array.from(nodeMap.values()).slice(0, 100)
LimitedNodes(nodeMap) ==
    SubSeq(nodeMap, 1, IF Len(nodeMap) < NodeLimit THEN Len(nodeMap)
                       ELSE NodeLimit)

\* Mutant of LimitedRels: the relationships are not filtered.
UnfilteredRels(rels, limitedNodes) == rels

\* rels.filter: the relationships between limited nodes.
LimitedRels(rels, limitedNodes) ==
    LET limitedNodeIds == {limitedNodes[i].id : i \in 1..Len(limitedNodes)}
    IN  SelectSeq(rels, LAMBDA r : r.from \in limitedNodeIds
                                   /\ r.to \in limitedNodeIds)

\* The graph data lists the fetch may return.  Short lists over a few nodes
\* and relationships: identities 1 and "1" have the same String, the second
\* relationship repeats the id of the first, the third ends at a node that
\* may be missing.
Identities == {<<"int", 1>>, <<"int", 2>>, <<"str", <<"1">>>>}
ShortNodes == {<<>>} \cup {<<RecordNode(i)>> : i \in Identities}
ShortRels ==
    {<<>>,
     <<RecordRelationship(<<"int", 1>>, <<"int", 1>>, <<"int", 2>>)>>,
     <<RecordRelationship(<<"int", 1>>, <<"int", 1>>, <<"int", 2>>),
       RecordRelationship(<<"str", <<"1">>>>, <<"int", 2>>, <<"int", 1>>)>>,
     <<RecordRelationship(<<"int", 2>>, <<"int", 1>>, <<"int", 3>>)>>}
ShortRecords ==
    {Record(seed, r, m) : seed \in ShortNodes, r \in ShortRels,
                          m \in ShortNodes}

RECURSIVE ListsUpTo(_, _)
ListsUpTo(S, n) ==
    IF n = 0 THEN {<<>>}
    ELSE LET shorter == ListsUpTo(S, n - 1)
         IN  shorter \cup {Append(l, x) : l \in shorter, x \in S}

\* A chain of n records: record i has seed i, m i + 1 and the relationship
\* i from i to i + 1, so the chain names n + 1 nodes.
Chain(n) ==
    [i \in 1..n |->
        Record(<<RecordNode(<<"int", i>>)>>,
               <<RecordRelationship(<<"int", i>>, <<"int", i>>,
                                    <<"int", i + 1>>)>>,
               <<RecordNode(<<"int", i + 1>>)>>)]

RecordLists ==
    ListsUpTo(ShortRecords, MaxRecords)
        \cup {Chain(n) : n \in {ChainLength - 2, ChainLength}}

\* The messages of the errors loadGraphData may catch: the response is not
\* ok (line 48), fetch or response.json() rejects with an Error, or with a
\* value that is no Error (line 129).
LoadErrors == {"Failed to load graph data", "Failed to fetch",
               "Unknown error"}

\* await response.json() resolves with the list rs (line 50).
GraphFetched(rs) ==
    /\ loading
    /\ records = <<>>
    /\ records' = <<rs>>
    /\ ev' = Event("graphFetched", TRUE)
    /\ UNCHANGED <<threadVars, nodes, relationships, loading, error,
                   selectedNode>>

\* The rest of the try block (lines 52-127).
GraphLoaded ==
    /\ loading
    /\ records # <<>>
    /\ LET done == Transform(records[1])
           limitedNodes == LimitedNodes(done.nodeMap)
           limitedRels == LimitedRels(done.rels, limitedNodes)
       IN  /\ nodes' = limitedNodes
           /\ relationships' = limitedRels
           /\ selectedNode' = IF Len(limitedNodes) > 0
                              THEN <<limitedNodes[1]>> ELSE selectedNode
    /\ loading' = FALSE
    /\ ev' = Event("loadGraphData", TRUE)
    /\ UNCHANGED <<threadVars, error, records>>

\* The catch block (lines 128-131), entered before the state is set.
GraphLoadFailed(message) ==
    /\ loading
    /\ records = <<>>
    /\ error' = <<message>>
    /\ loading' = FALSE
    /\ ev' = Event("loadGraphData", FALSE)
    /\ UNCHANGED <<threadVars, nodes, relationships, selectedNode, records>>

NextGraph ==
    \/ records = <<>> /\ \E rs \in RecordLists : GraphFetched(rs)
    \/ GraphLoaded
    \/ \E message \in LoadErrors : GraphLoadFailed(message)

SpecGraph == Init /\ [][NextGraph]_vars

(***************************************************************************)
(* Properties.                                                             *)
(***************************************************************************)
SubmittingOps == {"handleSubmit", "handleSuggestedPrompt", "handleRegenerate"}

\* C1: while the stream is loading, an invocation of handleSubmit,
\* handleSuggestedPrompt or handleRegenerate makes no stream.submit call and
\* leaves the transcript unchanged.
C1_OneSubmissionInFlight ==
    [][(isLoading /\ ev'.op \in SubmittingOps)
           => /\ ev'.submit = <<>>
              /\ submitCount' = submitCount
              /\ messages' = messages]_vars

\* Every ai message of msgs that issues tool invocations is immediately
\* followed by a matching tool response for each of them.
ToolCallsPaired(msgs) ==
    \A i \in 1..Len(msgs) :
        msgs[i].type = "ai" =>
            \A n \in 1..Len(msgs[i].tool_calls) :
                HasResponse(msgs, i, msgs[i].tool_calls[n])

\* C2: after an accepted handleSubmit or handleSuggestedPrompt, every ai
\* message of the transcript the new turn is based on that issues tool
\* invocations is immediately followed by a matching tool response for each
\* invocation.
C2_ToolCallsPairedAfterSubmit ==
    (ev.op \in {"handleSubmit", "handleSuggestedPrompt"} /\ ev.accepted)
        => ToolCallsPaired(messages)

\* The transcript handleSubmit takes as basis of a new turn: msgs with the
\* synthesized tool responses added (lines 451-453).
Normalize(msgs, u) == msgs \o ensureToolCallsHaveResponses(msgs, u)

\* C3: normalization is idempotent, normalize(normalize(T)) = normalize(T)
\* for the transcript T of every state, and the transcript left by an
\* accepted handleSubmit needs no further synthesized tool response.
C3_NormalizeIdempotent ==
    /\ LET once == Normalize(messages, nextUuid)
       IN  Normalize(once, nextUuid + Len(once) - Len(messages)) = once
    /\ (ev.op = "handleSubmit" /\ ev.accepted)
           => ensureToolCallsHaveResponses(messages, nextUuid) = <<>>

\* C4: handleSubmit with whitespace-only input and no pending blocks makes
\* no stream.submit call and leaves the transcript, the loading status,
\* firstTokenReceived, the input, the pending blocks and the notifications
\* unchanged.
C4_EmptySubmitIsNoOp ==
    [][(ev'.op = "handleSubmit" /\ Len(Trim(input)) = 0
            /\ Len(contentBlocks) = 0)
           => /\ ev'.submit = <<>>
              /\ submitCount' = submitCount
              /\ UNCHANGED <<messages, isLoading, firstTokenReceived, input,
                             contentBlocks, toasts>>]_vars

\* C4 witness: handleSubmit was called with whitespace-only input and no
\* pending block while the stream was idle.
C4_Witness ==
    /\ ev = Event("handleSubmit", FALSE)
    /\ ~isLoading
    /\ input = <<" ">>
    /\ contentBlocks = <<>>

\* C5: stop() during a run returns the stream to idle without a
\* notification and without touching the transcript, and a delta of a run
\* that is no longer in flight, the cancelled one included, leaves the
\* transcript unchanged.
C5_CancellationFence ==
    [][/\ ev'.op = "stop"
           => ~isLoading' /\ toasts' = toasts /\ messages' = messages
       /\ (ev'.op = "delta" /\ ~(isLoading /\ ev'.run = submitCount))
           => messages' = messages /\ ~ev'.accepted
       /\ (cancelled /\ ev'.op = "delta" /\ ev'.run = submitCount)
           => messages' = messages /\ ~isLoading']_vars

\* C5 witness: a delta of the run that stop() cancelled has arrived and was
\* discarded, the stream being idle.
C5_Witness ==
    /\ cancelled
    /\ ev = DeltaEvent(submitCount, FALSE)
    /\ ~isLoading

\* C6 as stated: an observed error whose message text equals that of the
\* error observed just before it produces no notification, one whose text
\* differs produces exactly one, and the text of the error observed last is
\* the text of the latest notification.
C6_DedupAnyText ==
    /\ [](streamError # <<>> =>
              toasts # <<>> /\ toasts[Len(toasts)] = streamError[1])
    /\ [][(ev'.op = "error" /\ streamError # <<>>)
              => Len(toasts') =
                     Len(toasts) + (IF streamError' = streamError
                                    THEN 0 ELSE 1)]_vars

\* The observed error carries a message text that is not empty.
HasText(err) == err # <<>> /\ err[1] # ""

\* C6, amended: among observed errors with a non-empty message text, the
\* first one after mount or after the error cleared is notified, one whose
\* text equals that of the error observed just before it produces no
\* notification, and one whose text differs from it produces exactly one;
\* the text of the error observed last is the text of the latest
\* notification.  An error with an empty message text produces none.
C6_DedupNonEmptyText ==
    /\ [](HasText(streamError) =>
              /\ lastError = streamError
              /\ toasts # <<>> /\ toasts[Len(toasts)] = streamError[1])
    /\ [](streamError = <<>> => lastError = <<>>)
    /\ [][ev'.op = "error" =>
              /\ ~HasText(streamError') => toasts' = toasts
              /\ (HasText(streamError') /\ HasText(streamError))
                     => toasts' = IF streamError' = streamError
                                  THEN toasts
                                  ELSE Append(toasts, streamError'[1])
              /\ (HasText(streamError') /\ streamError = <<>>)
                     => toasts' = Append(toasts, streamError'[1])]_vars

\* C6 witness: a second error with the text of the one before it was
\* observed and one notification was made.
C6_Witness ==
    /\ ev = Event("error", FALSE)
    /\ streamError = <<"e1">>
    /\ toasts = <<"e1">>

\* C7 as stated: an error whose text equals that of the error already
\* surfaced is suppressed until the text changes or the error clears, and
\* once a surfaced error has cleared the stored text is reset and the next
\* error is notified whatever its text.
C7_SurfacedAfterClearAnyText ==
    /\ [](streamError = <<>> => lastError = <<>>)
    /\ [][ev'.op = "error" =>
              /\ lastError = streamError' => toasts' = toasts
              /\ (streamError = <<>> /\ toasts # <<>>)
                     => toasts' = Append(toasts, streamError'[1])]_vars

\* C7, amended: an error whose text equals that of the error already
\* surfaced is suppressed, one with another non-empty text is notified;
\* once stream.error is empty the stored text is reset, so the next error
\* with a non-empty message text is notified even if its text equals the
\* last surfaced one.  An error with an empty message text is never
\* surfaced and leaves the stored text as it is.
C7_SurfacedOncePerText ==
    /\ [](streamError = <<>> => lastError = <<>>)
    /\ [][ev'.op = "error" =>
              /\ lastError = streamError'
                     => toasts' = toasts /\ lastError' = lastError
              /\ (HasText(streamError') /\ lastError # streamError')
                     => /\ toasts' = Append(toasts, streamError'[1])
                        /\ lastError' = streamError'
              /\ ~HasText(streamError')
                     => toasts' = toasts /\ lastError' = lastError]_vars

\* C7 witness: the error cleared and the next error, with the text of the
\* one surfaced before, was notified again.
C7_Witness ==
    /\ ev = Event("error", TRUE)
    /\ toasts = <<"e1", "e1">>

\* The last entry of msgs is an ai or a tool message.
LastIsAiOrTool(msgs) ==
    Len(msgs) # 0 /\ msgs[Len(msgs)].type \in {"ai", "tool"}

\* C8: a reconciliation step that changes the transcript length and leaves
\* an ai or a tool message as last entry sets firstTokenReceived, and the
\* loading placeholder, rendered when isLoading and not firstTokenReceived,
\* is then gone.
C8_FirstTokenOnAiOrTool ==
    [][(ev'.op = "delta" /\ ev'.accepted
            /\ Len(messages') # Len(messages) /\ LastIsAiOrTool(messages'))
           => firstTokenReceived' /\ ~(isLoading' /\ ~firstTokenReceived')]_vars

\* C9: after an accepted handleSubmit or handleSuggestedPrompt, whose
\* optimistic human message is then the last entry, and after every
\* handleRegenerate, firstTokenReceived is false.
C9_FirstTokenReset ==
    /\ (ev.op \in {"handleSubmit", "handleSuggestedPrompt"} /\ ev.accepted)
           => /\ ~firstTokenReceived
              /\ messages[Len(messages)].type = "human"
    /\ ev.op = "handleRegenerate" => ~firstTokenReceived

\* C9 witness: handleSubmit was accepted on a transcript that ended with an
\* ai message, which had set firstTokenReceived.
C9_Witness ==
    /\ ev.op = "handleSubmit" /\ ev.accepted
    /\ Len(messages) > 2
    /\ messages[Len(messages) - 1].type = "ai"
    /\ ~firstTokenReceived

\* C10: handleRegenerate sets firstTokenReceived to false and lowers
\* prevMessageLength by exactly one; an accepted handleSubmit or
\* handleSuggestedPrompt leaves prevMessageLength at the length of the
\* transcript it produced.
C10_RegenerateBookkeeping ==
    [][/\ ev'.op = "handleRegenerate"
           => /\ prevMessageLength' = prevMessageLength - 1
              /\ ~firstTokenReceived'
              /\ messages' = messages
       /\ (ev'.op \in {"handleSubmit", "handleSuggestedPrompt"}
               /\ ev'.accepted)
           => prevMessageLength' = Len(messages')]_vars

\* C10 witness: handleRegenerate has run on a transcript the effect had
\* counted, so the counter is one below the transcript length.
C10_Witness ==
    /\ ev.op = "handleRegenerate"
    /\ prevMessageLength = Len(messages) - 1
    /\ ~firstTokenReceived

\* C11: handleRegenerate(checkpoint) makes exactly one stream.submit call;
\* its payload carries no messages, its options carry the given checkpoint
\* and the stream options of a normal submit (streamMode ["values"],
\* streamSubgraphs, streamResumable) without an optimistic update, and the
\* call leaves the transcript as it was, neither longer nor shorter.
C11_RegeneratePayload ==
    [][ev'.op = "handleRegenerate"
           => /\ submitCount' = submitCount + 1
              /\ Len(ev'.submit) = 1
              /\ ev'.submit[1].payload = <<>>
              /\ ev'.submit[1].options.checkpoint = ev'.arg
              /\ ev'.submit[1].options.streamMode = <<"values">>
              /\ ev'.submit[1].options.streamSubgraphs
              /\ ev'.submit[1].options.streamResumable
              /\ ~ev'.submit[1].options.optimisticValues
              /\ messages' = messages]_vars

\* C11 witness: handleRegenerate(cp-1) was called on a transcript of a
\* human and an ai message and submitted with that checkpoint.
C11_Witness ==
    /\ ev.op = "handleRegenerate"
    /\ ev.arg = <<"cp-1">>
    /\ ev.submit[1].options.checkpoint = <<"cp-1">>
    /\ Len(messages) = 2
    /\ messages[2].type = "ai"

\* The new human messages are submitted by these handlers.
HumanSubmittingOps == {"handleSubmit", "handleSuggestedPrompt"}

\* C12: the payload of every accepted handleSubmit and handleSuggestedPrompt
\* carries the artifact context if and only if the artifact context is
\* non-empty at the call; when it is empty the payload carries no context
\* value.
C12_ContextAttachedIffNonEmpty ==
    [][(ev'.op \in HumanSubmittingOps /\ ev'.accepted)
           => ev'.submit[1].payload[1].context =
                  IF artifactContext = {} THEN <<>>
                  ELSE <<artifactContext>>]_vars

\* C13: setThreadId, with null or with a thread id, leaves the artifact
\* context empty and the artifact panel closed; they stay so until the
\* context is set again, and an accepted submission made before that
\* carries no context.
C13_ContextClearedOnThreadSwitch ==
    /\ [](contextBeforeSwitch # <<>>
              => artifactContext = {} /\ ~artifactOpen)
    /\ [][/\ ev'.op = "setThreadId"
              => /\ artifactContext' = {}
                 /\ ~artifactOpen'
                 /\ <<threadId'>> = ev'.arg
          /\ (ev'.op \in HumanSubmittingOps /\ ev'.accepted
                  /\ contextBeforeSwitch # <<>>)
              => ev'.submit[1].payload[1].context = <<>>]_vars

\* C13 witness: setThreadId found a non-empty artifact context, and the
\* handleSubmit accepted after it, the context not being set again, carried
\* no context.
C13_Witness ==
    /\ ev.op = "handleSubmit" /\ ev.accepted
    /\ contextBeforeSwitch = <<{<<"k", "v">>}>>
    /\ ev.submit[1].payload[1].context = <<>>

\* The positions of msgs whose message is not internal: it has no id, or an
\* id that does not begin with the reserved prefix.
VisiblePositions(msgs) ==
    {i \in 1..Len(msgs) :
        msgs[i].id = <<>> \/ msgs[i].id[1] # DO_NOT_RENDER_ID_PREFIX}

\* The n-th smallest element of the set of positions ps.
NthPosition(ps, n) ==
    CHOOSE i \in ps : Cardinality({h \in ps : h < i}) = n - 1

\* C14: the rendered projection is the transcript without the messages
\* whose id begins with the reserved prefix, in the same relative order,
\* messages without an id being kept; the internal entries stay in
\* stream.messages, whose full length the length bookkeeping records after
\* an accepted submit.
C14_ProjectionIsFilteredTranscript ==
    /\ [](LET ps == VisiblePositions(messages)
          IN  /\ Len(RenderedMessages) = Cardinality(ps)
              /\ \A n \in 1..Len(RenderedMessages) :
                     RenderedMessages[n] = messages[NthPosition(ps, n)])
    /\ [][/\ \A i \in 1..Len(messages) :
                 StartsWith(messages[i].id, DO_NOT_RENDER_ID_PREFIX)
                     => i <= Len(messages') /\ messages'[i] = messages[i]
          /\ (ev'.op \in HumanSubmittingOps /\ ev'.accepted)
                 => prevMessageLength' = Len(messages')]_vars

\* C14 witness: the transcript holds a message without an id and a
\* synthesized tool response; the projection is shorter than the
\* transcript, whose full length the bookkeeping has recorded.
C14_Witness ==
    /\ \E i \in 1..Len(messages) : messages[i].id = <<>>
    /\ \E i \in 1..Len(messages) :
           StartsWith(messages[i].id, DO_NOT_RENDER_ID_PREFIX)
    /\ Len(RenderedMessages) = Len(messages) - 1
    /\ prevMessageLength = Len(messages)

\* The tool invocations of msgs that no tool response right after their ai
\* message answers, as pairs of message position and invocation position.
UnansweredCalls(msgs) ==
    {<<i, n>> \in UNION {{i} \X (1..Len(msgs[i].tool_calls)) :
                             i \in 1..Len(msgs)} :
        /\ msgs[i].type = "ai"
        /\ ~HasResponse(msgs, i, msgs[i].tool_calls[n])}

\* C15: the optimistic update of an accepted handleSubmit or
\* handleSuggestedPrompt only appends: every entry of the previous
\* transcript keeps its position and content, and the suffix added is the
\* synthesized tool responses (one per unanswered invocation for
\* handleSubmit, none for handleSuggestedPrompt) followed by the new human
\* message; the messages of the payload are exactly that suffix.
C15_OptimisticAppendOnly ==
    [][(ev'.op \in HumanSubmittingOps /\ ev'.accepted)
           => LET n == Len(messages)
                  sent == ev'.submit[1].payload[1].messages
                  k == Len(sent)
              IN  /\ k >= 1
                  /\ Len(messages') = n + k
                  /\ \A i \in 1..n : messages'[i] = messages[i]
                  /\ SubSeq(messages', n + 1, n + k) = sent
                  /\ sent[k].type = "human"
                  /\ sent[k].id[1] = UuidPrefix
                  /\ \A j \in 1..(k - 1) :
                         /\ sent[j].type = "tool"
                         /\ StartsWith(sent[j].id, DO_NOT_RENDER_ID_PREFIX)
                  /\ k - 1 = IF ev'.op = "handleSubmit"
                             THEN Cardinality(UnansweredCalls(messages))
                             ELSE 0]_vars

\* C15 witness: an accepted handleSubmit appended one synthesized tool
\* response and then the new human message, and sent both.
C15_Witness ==
    /\ ev.op = "handleSubmit" /\ ev.accepted
    /\ Len(ev.submit[1].payload[1].messages) = 2
    /\ Len(messages) >= 4
    /\ messages[Len(messages) - 1].type = "tool"
    /\ messages[Len(messages) - 1] = ev.submit[1].payload[1].messages[1]
    /\ messages[Len(messages)] = ev.submit[1].payload[1].messages[2]

\* C16: a folded delta whose message has the id of an entry of the
\* transcript replaces that entry in place by the delta's version: no entry
\* is added and no other entry changes or moves; a message with a new id is
\* appended.  A delta never resets firstTokenReceived, and the end of the
\* run returns the stream to idle with the transcript as merged: after
\* submit, delta ai "Hi" and delta ai "Hi!" under the same id the transcript
\* is [human, ai "Hi!"] with firstTokenReceived true.
C16_MergeById ==
    [][/\ (ev'.op = "delta" /\ ev'.accepted)
              => LET m == ev'.arg[1]
                     hits == {i \in 1..Len(messages) :
                                 messages[i].id = m.id}
                 IN  /\ IF hits # {}
                        THEN /\ Len(messages') = Len(messages)
                             /\ \E i \in hits :
                                    /\ messages'[i] = m
                                    /\ \A j \in 1..Len(messages) :
                                           j # i
                                               => messages'[j] = messages[j]
                        ELSE messages' = Append(messages, m)
                     /\ firstTokenReceived => firstTokenReceived'
                     /\ (Len(messages') # Len(messages) /\ m.type = "ai")
                            => firstTokenReceived'
       /\ ev'.op = "finish"
              => /\ ~isLoading'
                 /\ messages' = messages
                 /\ firstTokenReceived' = firstTokenReceived]_vars

\* C16 witness: the delta just folded carried the longer text under the id
\* of the second of three entries and replaced that entry where it was, a
\* later ai message staying last.
C16_Witness ==
    /\ ev.op = "delta" /\ ev.accepted
    /\ Len(messages) = 3
    /\ messages[1].type = "human"
    /\ ev.arg = <<AiMessage(<<ServerPrefix, 1>>, <<"H", "i", "!">>, <<>>)>>
    /\ messages[2] = ev.arg[1]
    /\ messages[3].id = <<ServerPrefix, 2>>
    /\ firstTokenReceived

\* C17: the human message an accepted handleSubmit appends has as content
\* one text block holding the input as typed, present only if the trimmed
\* input is non-empty, followed by the pending blocks in their order and
\* nothing else; the call leaves the input and the pending blocks empty.
C17_SubmitConsumesBuffer ==
    [][(ev'.op = "handleSubmit" /\ ev'.accepted)
           => LET content == messages'[Len(messages')].content
                  offset == IF Len(Trim(input)) > 0 THEN 1 ELSE 0
              IN  /\ messages'[Len(messages')].type = "human"
                  /\ Len(content) = offset + Len(contentBlocks)
                  /\ offset = 1
                         => content[1] = [type |-> "text", text |-> input]
                  /\ \A j \in 1..Len(contentBlocks) :
                         content[offset + j] = contentBlocks[j]
                  /\ input' = <<>>
                  /\ contentBlocks' = <<>>]_vars

\* C17 witness: handleSubmit was accepted with a typed text and two pending
\* blocks, an image and then a file; the new message holds the three in
\* that order and the buffer is empty.
C17_Witness ==
    /\ ev.op = "handleSubmit" /\ ev.accepted
    /\ messages[Len(messages)].content =
           <<TextBlock(<<" ", "a">>), AttachmentBlock("image"),
             AttachmentBlock("file")>>
    /\ input = <<>>
    /\ contentBlocks = <<>>

\* C18: in every state prevMessageLength is the length of the transcript
\* minus the number of handleRegenerate calls made since the effect on the
\* transcript last ran; every change of the transcript sets it to the new
\* length, and with no regeneration pending it is not negative.
C18_LengthCounter ==
    /\ [](prevMessageLength = Len(messages) - regensSinceChange)
    /\ [](regensSinceChange = 0 => prevMessageLength >= 0)
    /\ [][messages' # messages
              => /\ prevMessageLength' = Len(messages')
                 /\ regensSinceChange' = 0]_vars

\* C18 witness: a regeneration is pending on a transcript of a human and an
\* ai message that the effect had counted; the counter is one below the
\* length.
C18_Witness ==
    /\ regensSinceChange = 1
    /\ isLoading
    /\ Len(messages) = 2
    /\ prevMessageLength = 1

\* The ids of the entries of the list l are pairwise distinct.
DistinctIds(l) ==
    \A i, j \in 1..Len(l) : i # j => l[i].id # l[j].id

\* C19: once loadGraphData has completed without error, at most 100 nodes
\* are shown, the node ids are pairwise distinct, the relationship ids are
\* pairwise distinct, and both endpoints of every shown relationship are
\* shown nodes; the load ends with loading false on success and on failure,
\* and error is set exactly on failure.
C19_GraphClosedAndBounded ==
    /\ []((~loading /\ error = <<>>)
              => /\ Len(nodes) <= NodeLimit
                 /\ DistinctIds(nodes)
                 /\ DistinctIds(relationships)
                 /\ \A n \in 1..Len(relationships) :
                        /\ \E i \in 1..Len(nodes) :
                               nodes[i].id = relationships[n].from
                        /\ \E i \in 1..Len(nodes) :
                               nodes[i].id = relationships[n].to)
    /\ [][ev'.op = "loadGraphData"
              => /\ loading /\ ~loading'
                 /\ ev'.accepted => error' = <<>>
                 /\ ~ev'.accepted => error' # <<>>]_vars

\* C19 witness: the load of the longest chain, which names more than 100
\* nodes, has completed: 100 nodes are shown with the relationships among
\* them, the relationships that reach the nodes cut off being dropped.
C19_Witness ==
    /\ ~loading /\ error = <<>>
    /\ records # <<>> /\ Len(records[1]) = ChainLength
    /\ Len(nodes) = NodeLimit
    /\ Len(relationships) = NodeLimit - 1

====
